---- MODULE Spec2Model ----
(***************************************************************************)
(* Model of src/enrichment_engine.py: the GitHubEnrichmentEngine class and *)
(* the main() entry point.  The external client (the `gh` program run by   *)
(* subprocess.run) is the environment: each call's outcome is chosen       *)
(* nondeterministically.  Python values are modelled as follows:           *)
(*   Optional[x]       <<>> for None, <<x>> otherwise                      *)
(*   dict              a function (records for string keys that are names) *)
(*   str               a string; a text whose lines matter is a sequence   *)
(*                     of tokens in which "\n" is the newline token        *)
(*   f-string / URL    the sequence of its parts                           *)
(***************************************************************************)
EXTENDS Integers, Sequences, FiniteSets, TLC

VARIABLES
    mode,               \* "cli": main() runs; "api": a caller drives the engine
    github_token,       \* argument of GitHubEnrichmentEngine.__init__
    env_token,          \* os.getenv("GITHUB_TOKEN")
    args,               \* sys.argv as argparse sees it (cli)
    pc,                 \* position of the single control flow
    token,              \* self.token
    deployment_history, \* self.deployment_history
    repos,              \* multi_repo_enrichment: parameter repos
    package_type,       \* multi_repo_enrichment: parameter package_type
    package,            \* multi_repo_enrichment: local package
    repo_configs,       \* multi_repo_enrichment: local repo_configs
    results,            \* multi_repo_enrichment: local results
    report,             \* what _print_deployment_summary printed
    trace,              \* external-client calls and results of the current operation
    history0,           \* deployment_history on entry of the current batch
    raised,             \* the exception that left the current operation
    exit_code           \* process exit status, -1 while running

vars == <<mode, github_token, env_token, args, pc, token, deployment_history,
          repos, package_type, package, repo_configs, results, report, trace,
          history0, raised, exit_code>>

----------------------------------------------------------------------------
(* Bounds of the model *)

MaxRepos == 2      \* repositories one engine instance is given in its lifetime
MaxTime == 1       \* largest elapsed time of one deployment, in clock ticks

----------------------------------------------------------------------------
(* Input domains *)

Owner == "octo"
RepoNames == {"a", "b"}
RawFields == {"a", " b"}                 \* fields of --repos between commas
TokenValues == {<<>>, <<"">>, <<"ghp_x">>}
PackageChoices == {"legal-doc-gundam", "testing-suite"}
PackageInputs == PackageChoices \cup {"unknown-kit"}

SeqsUpTo(S, n) == UNION {[1..k -> S] : k \in 0..n}

RECURSIVE SumSeq(_)
SumSeq(s) == IF s = <<>> THEN 0 ELSE Head(s) + SumSeq(Tail(s))

----------------------------------------------------------------------------
(* Python helpers *)

\* truth value of an Optional[str]
Truthy(v) == v # <<>> /\ v[1] # ""

\* a or b
PyOr(a, b) == IF Truthy(a) THEN a ELSE b

\* str.strip on one field of --repos
Strip(s) == IF s = " b" THEN "b" ELSE s

\* len(content.split('\n'))
SplitLen(content) == Cardinality({k \in DOMAIN content : content[k] = "\n"}) + 1

----------------------------------------------------------------------------
(* EnrichmentPackage and the package builder *)

NL == "\n"

_get_evidence_drafter_code ==
    <<"# Evidence-Aware Drafter Module", NL,
      "# (Full implementation from deployment)", NL>>

_get_jurisdiction_code == <<"# Jurisdiction Registry Module", NL>>

_get_quality_suite_code == <<"# Quality Suite Module", NL>>

_get_model_router_code == <<"# Model Router Module", NL>>

_get_court_profile(court_id) == <<"# Court Profile: ", court_id, NL>>

EnrichmentPackage(name, desc, files) ==
    [package_name |-> name, description |-> desc, files |-> files,
     version |-> "1.0.0"]

_create_legal_doc_gundam_package ==
    EnrichmentPackage(
        "Legal Doc Gundam v1.0",
        "Zero-hallucination legal document generation suite",
        ("core/evidence_aware_drafter.py" :> _get_evidence_drafter_code)
        @@ ("core/jurisdiction_registry.py" :> _get_jurisdiction_code)
        @@ ("core/quality_suite.py" :> _get_quality_suite_code)
        @@ ("core/multi_model_fileboss.py" :> _get_model_router_code)
        @@ ("config/courts/hi_family.yaml" :> _get_court_profile("hi_family"))
        @@ ("config/courts/cand.yaml" :> _get_court_profile("cand"))
        @@ ("config/courts/ca9.yaml" :> _get_court_profile("ca9")))

\* A call returns [exc |-> "none", value |-> v] or leaves with an exception,
\* [exc |-> <exception class>, value |-> <<>>].
Return(v) == [exc |-> "none", value |-> v]
Raise(e) == [exc |-> e, value |-> <<>>]

\* The class defines no method _create_testing_suite_package, so the
\* attribute lookup of the second branch raises AttributeError.
create_enrichment_package(ptype) ==
    IF ptype = "legal-doc-gundam" THEN Return(<<_create_legal_doc_gundam_package>>)
    ELSE IF ptype = "testing-suite" THEN Raise("AttributeError")
    ELSE Raise("ValueError")

----------------------------------------------------------------------------
(* Repository scanner and analyzer *)

ScanOutcomes == {"nonzero", "not_json"} \cup {"listed"}
ViewOutcomes == {"ok", "null_language", "not_json", "nonzero"}
TreeOutcomes == {"ok", "nonzero", "not_json"}

\* the names the external client lists for the owner
ListedRepos == {<<>>, <<"a", "b">>}

\* scan_repos with filter_pattern = None, the only way main calls it
scan_repos(outcome, listed) ==
    IF outcome = "nonzero" THEN Return(<<>>)
    ELSE IF outcome = "not_json" THEN Raise("JSONDecodeError")
    ELSE Return(listed)

\* the tree listing of HEAD the external client answers with
TreeListing == ("README.md" :> "blob") @@ ("src" :> "tree")
EmptyDict == [x \in {} |-> x]

\* mutant: the return code of the metadata call is not tested
analyze_repo_structure_NoCheck(repo, view, tree) ==
    IF view = "not_json" THEN Raise("JSONDecodeError")
    ELSE IF tree = "not_json" THEN Raise("JSONDecodeError")
    ELSE IF view = "null_language" THEN Raise("AttributeError")
    ELSE Return([name |-> repo,
                 description |-> "",
                 language |-> <<"Python">>,
                 default_branch |-> "main",
                 structure |-> IF tree = "ok" THEN TreeListing ELSE EmptyDict])

analyze_repo_structure(repo, view, tree) ==
    IF view = "nonzero" THEN Return([error |-> "stderr of gh repo view"])
    ELSE IF view = "not_json" THEN Raise("JSONDecodeError")
    ELSE IF tree = "not_json" THEN Raise("JSONDecodeError")
    ELSE IF view = "null_language" THEN Raise("AttributeError")
    ELSE Return([name |-> repo,
                 description |-> "",
                 language |-> <<"Python">>,
                 default_branch |-> "main",
                 structure |-> IF tree = "ok" THEN TreeListing ELSE EmptyDict])

\* the tree call is issued unless the view call ended the analysis first
TreeCallIssued(view) == view \in {"ok", "null_language"}

----------------------------------------------------------------------------
(* Deployment executor *)

\* Outcomes of the branch-creation call.  subprocess.run(check=True) turns a
\* non-zero exit into CalledProcessError; that and any other exception of the
\* try block reach the same `except Exception` clause.
DeployOutcomes == {"ok", "nonzero"}

DeploymentConfig(repo, owner, ptype) ==
    [repo_name |-> repo, owner |-> owner, target_branch |-> "main",
     feature_branch |-> <<"feature/", ptype, "-integration">>,
     directory_structure |-> <<>>]

\* str(e) of the CalledProcessError
ErrorText(outcome) == "Command returned non-zero exit status 1."

RECURSIVE SumLines(_, _)
SumLines(files, paths) ==
    IF paths = {} THEN 0
    ELSE LET p == CHOOSE q \in paths : TRUE
         IN SplitLen(files[p]) + SumLines(files, paths \ {p})

\* mutant: the except path reports the counts of the package
deploy_to_repo_CountsOnFailure(owner, repo, pkg, config, outcome, elapsed) ==
    [repo |-> repo,
     success |-> outcome = "ok",
     files_deployed |-> Cardinality(DOMAIN pkg.files),
     lines_deployed |-> SumLines(pkg.files, DOMAIN pkg.files),
     branch_url |-> IF outcome = "ok"
                    THEN <<"https://github.com/", owner, "/", repo, "/tree/">>
                         \o config.feature_branch
                    ELSE <<>>,
     execution_time |-> elapsed,
     error |-> IF outcome = "ok" THEN <<>> ELSE <<ErrorText(outcome)>>]

\* The loop over package.files only prints (directory_structure is None, so
\* _adapt_path is not called); elapsed is datetime.now() - start_time.
deploy_to_repo(owner, repo, pkg, config, outcome, elapsed) ==
    IF outcome = "ok"
    THEN [repo |-> repo,
          success |-> TRUE,
          files_deployed |-> Cardinality(DOMAIN pkg.files),
          lines_deployed |-> SumLines(pkg.files, DOMAIN pkg.files),
          branch_url |-> <<"https://github.com/", owner, "/", repo, "/tree/">>
                         \o config.feature_branch,
          execution_time |-> elapsed,
          error |-> <<>>]
    ELSE [repo |-> repo,
          success |-> FALSE,
          files_deployed |-> 0,
          lines_deployed |-> 0,
          branch_url |-> <<>>,
          execution_time |-> elapsed,
          error |-> <<ErrorText(outcome)>>]

----------------------------------------------------------------------------
(* Summary *)

\* Line 320 divides by len(results) and line 324 by total_time; neither
\* divisor is tested first.
_print_deployment_summary(rs) ==
    LET total_files == SumSeq([k \in DOMAIN rs |-> rs[k].files_deployed])
        total_lines == SumSeq([k \in DOMAIN rs |-> rs[k].lines_deployed])
        total_time == SumSeq([k \in DOMAIN rs |-> rs[k].execution_time])
        success_count == Cardinality({k \in DOMAIN rs : rs[k].success})
    IN IF Len(rs) = 0 THEN Raise("ZeroDivisionError")
       ELSE IF total_time = 0 THEN Raise("ZeroDivisionError")
       ELSE Return(<<[repositories |-> Len(rs),
                      success_count |-> success_count,
                      success_percent |-> <<100 * success_count, Len(rs)>>,
                      total_files |-> total_files,
                      total_lines |-> total_lines,
                      total_time |-> total_time,
                      velocity |-> <<total_lines, total_time>>]>>)

----------------------------------------------------------------------------
(* Control flow *)

\* mutant: the test is `self.token is None`, which lets an empty token pass
TokenMissing_IsNone(tok) == tok = <<>>

\* `if not self.token` of __init__
TokenMissing(tok) == ~Truthy(tok)

\* mutant: the except path forgets to record its result
history_append_SuccessOnly(history, result) ==
    IF result.success THEN Append(history, result) ELSE history

\* self.deployment_history.append(result), on both paths of deploy_to_repo
history_append(history, result) == Append(history, result)

\* mutant: one fused loop, each repository deployed to right after its analysis
NextStep_Fused(analyzed, deployed, total) ==
    IF deployed < analyzed THEN "deploy"
    ELSE IF analyzed < total THEN "analyze"
    ELSE "summary"

\* The two loops of multi_repo_enrichment: every repository is analyzed,
\* then every repository is deployed to, then the summary is printed.
NextStep(analyzed, deployed, total) ==
    IF analyzed < total THEN "analyze"
    ELSE IF deployed < total THEN "deploy"
    ELSE "summary"

\* all(r.success for r in results) of main
AllSucceeded(rs) == \A k \in DOMAIN rs : rs[k].success

Event(kind, idx, outcome) == [kind |-> kind, idx |-> idx, outcome |-> outcome]

\* An exception no frame catches: main dies with a traceback and status 1;
\* a direct caller of the engine receives the exception.
Propagate(e) ==
    /\ raised' = e
    /\ pc' = IF mode = "cli" THEN "exited" ELSE "raised"
    /\ exit_code' = IF mode = "cli" THEN 1 ELSE exit_code

NoArgs == [scan |-> FALSE, repos |-> <<>>, package |-> ""]

CliArgs ==
    [scan : BOOLEAN,
     repos : SeqsUpTo(RawFields, MaxRepos) \ {<<>>},
     package : PackageInputs]

Init ==
    /\ mode \in {"cli", "api"}
    /\ github_token \in (IF mode = "cli" THEN {<<>>} ELSE TokenValues)
    /\ env_token \in (IF mode = "cli" THEN TokenValues ELSE {<<>>})
    /\ args \in (IF mode = "cli" THEN CliArgs ELSE {NoArgs})
    /\ pc = IF mode = "cli" THEN "parse_args" ELSE "construct"
    /\ token = <<>>
    /\ deployment_history = <<>>
    /\ repos = <<>>
    /\ package_type = ""
    /\ package = <<>>
    /\ repo_configs = <<>>
    /\ results = <<>>
    /\ report = <<>>
    /\ trace = <<>>
    /\ history0 = <<>>
    /\ raised = "none"
    /\ exit_code = -1

\* parser.parse_args(): --package is restricted to its choices; argparse
\* exits with status 2 on any other value.
ParseArgs ==
    /\ pc = "parse_args"
    /\ IF args.package \in PackageChoices
       THEN pc' = "construct" /\ exit_code' = exit_code
       ELSE pc' = "exited" /\ exit_code' = 2
    /\ UNCHANGED <<mode, github_token, env_token, args, token,
                   deployment_history, repos, package_type, package,
                   repo_configs, results, report, trace, history0, raised>>

\* GitHubEnrichmentEngine.__init__
EngineInit ==
    /\ pc = "construct"
    /\ token' = PyOr(github_token, env_token)
    /\ IF TokenMissing(token')
       THEN Propagate("ValueError")
       ELSE pc' = "ready" /\ UNCHANGED <<raised, exit_code>>
    /\ deployment_history' = <<>>
    /\ UNCHANGED <<mode, github_token, env_token, args, repos, package_type,
                   package, repo_configs, results, report, trace, history0>>

\* main with --scan: scan_repos, the listing, return
MainScan ==
    /\ pc = "ready" /\ mode = "cli" /\ args.scan
    /\ \E outcome \in ScanOutcomes, listed \in ListedRepos :
         LET r == scan_repos(outcome, listed)
         IN /\ trace' = <<Event("scan", 0, outcome)>>
            /\ IF r.exc # "none"
               THEN Propagate(r.exc) /\ report' = report
               ELSE /\ report' = <<[found |-> Len(r.value)]>>
                    /\ pc' = "exited"
                    /\ exit_code' = 0
                    /\ raised' = raised
    /\ UNCHANGED <<mode, github_token, env_token, args, token,
                   deployment_history, repos, package_type, package,
                   repo_configs, results, history0>>

\* multi_repo_enrichment up to its first loop: the package is built
BatchStart ==
    /\ \/ pc = "ready" /\ mode = "cli" /\ ~args.scan
       \/ pc \in {"ready", "returned"} /\ mode = "api"
    /\ \E L \in SeqsUpTo(RepoNames, MaxRepos), p \in PackageInputs :
         /\ mode = "cli" =>
                /\ L = [k \in DOMAIN args.repos |-> Strip(args.repos[k])]
                /\ p = args.package
         /\ Len(deployment_history) + Len(L) <= MaxRepos
         /\ repos' = L
         /\ package_type' = p
         /\ LET r == create_enrichment_package(p)
            IN IF r.exc # "none"
               THEN Propagate(r.exc) /\ package' = <<>>
               ELSE /\ package' = r.value
                    /\ pc' = NextStep(0, 0, Len(L))
                    /\ raised' = "none"
                    /\ exit_code' = exit_code
    /\ repo_configs' = <<>>
    /\ results' = <<>>
    /\ report' = <<>>
    /\ trace' = <<>>
    /\ history0' = deployment_history
    /\ UNCHANGED <<mode, github_token, env_token, args, token,
                   deployment_history>>

\* one iteration of the first loop: analyze_repo_structure, DeploymentConfig
Analyze ==
    /\ pc = "analyze"
    /\ LET i == Len(repo_configs) + 1
           repo == repos[i]
       IN \E view \in ViewOutcomes, tree \in TreeOutcomes :
            LET r == analyze_repo_structure(repo, view, tree)
                config == DeploymentConfig(repo, Owner, package_type)
            IN /\ trace' = trace \o <<Event("view", i, view)>>
                           \o (IF TreeCallIssued(view)
                               THEN <<Event("tree", i, tree)>> ELSE <<>>)
               /\ IF r.exc # "none"
                  THEN Propagate(r.exc) /\ repo_configs' = repo_configs
                  ELSE /\ repo_configs' =
                            Append(repo_configs,
                                   [repo |-> repo, config |-> config,
                                    analysis |-> r.value])
                       /\ pc' = NextStep(i, Len(results), Len(repos))
                       /\ UNCHANGED <<raised, exit_code>>
    /\ UNCHANGED <<mode, github_token, env_token, args, token,
                   deployment_history, repos, package_type, package, results,
                   report, history0>>

\* one iteration of the second loop: deploy_to_repo, results.append
Deploy ==
    /\ pc = "deploy"
    /\ LET i == Len(results) + 1
           rc == repo_configs[i]
       IN \E outcome \in DeployOutcomes, elapsed \in 0..MaxTime :
            LET result == deploy_to_repo(Owner, rc.repo, package[1], rc.config,
                                         outcome, elapsed)
            IN /\ deployment_history' = history_append(deployment_history, result)
               /\ results' = Append(results, result)
               /\ trace' = trace \o <<Event("refs", i, outcome),
                                      Event("result", i, outcome)>>
               /\ pc' = NextStep(Len(repo_configs), i, Len(repos))
    /\ UNCHANGED <<mode, github_token, env_token, args, token, repos,
                   package_type, package, repo_configs, report, history0,
                   raised, exit_code>>

\* _print_deployment_summary and the return of multi_repo_enrichment
Summary ==
    /\ pc = "summary"
    /\ LET r == _print_deployment_summary(results)
       IN IF r.exc # "none"
          THEN Propagate(r.exc) /\ report' = report
          ELSE /\ report' = r.value
               /\ pc' = "returned"
               /\ UNCHANGED <<raised, exit_code>>
    /\ UNCHANGED <<mode, github_token, env_token, args, token,
                   deployment_history, repos, package_type, package,
                   repo_configs, results, trace, history0>>

\* main after the batch: sys.exit(0) or sys.exit(1)
MainExit ==
    /\ pc = "returned" /\ mode = "cli"
    /\ pc' = "exited"
    /\ exit_code' = IF AllSucceeded(results) THEN 0 ELSE 1
    /\ UNCHANGED <<mode, github_token, env_token, args, token,
                   deployment_history, repos, package_type, package,
                   repo_configs, results, report, trace, history0, raised>>

Next ==
    \/ ParseArgs
    \/ EngineInit
    \/ MainScan
    \/ BatchStart
    \/ Analyze
    \/ Deploy
    \/ Summary
    \/ MainExit

Spec == Init /\ [][Next]_vars

----------------------------------------------------------------------------
(* Properties *)

\* the batch has been entered
BatchEntered == package_type # ""

\* the operation has ended, by return, by exception or by process exit
Ended == pc \in {"returned", "raised", "exited"}

Calls(kind) == {q \in DOMAIN trace : trace[q].kind = kind}
AnalysisCalls == Calls("view") \cup Calls("tree")

\* outcome of the call of the given kind for list position i, "" if none
OutcomeOf(kind, i) ==
    IF \E q \in Calls(kind) : trace[q].idx = i
    THEN trace[CHOOSE q \in Calls(kind) : trace[q].idx = i].outcome
    ELSE ""

IsFailedResult(r) ==
    /\ r.success = FALSE
    /\ r.files_deployed = 0
    /\ r.lines_deployed = 0
    /\ r.branch_url = <<>>
    /\ r.error # <<>>
    /\ r.error[1] # ""

ResultsMatchInput ==
    /\ Len(results) = Len(repos)
    /\ \A k \in DOMAIN results : results[k].repo = repos[k]

\* C1: for every repository list and every package type of the enumeration,
\* multi_repo_enrichment returns, and returns one result per input
\* repository, in input order.
C1_OneResultPerInput ==
    (BatchEntered /\ package_type \in PackageChoices /\ Ended)
        => (raised = "none" /\ ResultsMatchInput)

\* C2: a failed deployment yields a result with success = FALSE, zero counts,
\* an empty branch URL and a non-empty error text; every result depends on
\* its own repository's outcome only; and the loop goes on to the remaining
\* repositories after a failure.
C2_FailureIsolation ==
    /\ \A k \in DOMAIN results :
         /\ OutcomeOf("refs", k) # "ok" => IsFailedResult(results[k])
         /\ results[k].execution_time \in 0..MaxTime
         /\ results[k] = deploy_to_repo(Owner, repos[k], package[1],
                              DeploymentConfig(repos[k], Owner, package_type),
                              OutcomeOf("refs", k), results[k].execution_time)
    /\ (pc # "deploy" /\ \E k \in DOMAIN results : ~results[k].success)
         => ResultsMatchInput

C2_Witness ==
    \E k \in DOMAIN results :
        /\ ~results[k].success
        /\ k + 1 \in DOMAIN results
        /\ results[k + 1].success

\* C3 (as claimed): the first external call for repository N+1, analysis or
\* deployment, comes after the DeploymentResult of repository N.
C3_StrictlySequential ==
    \A q \in DOMAIN trace :
        (trace[q].kind \in {"view", "tree", "refs"} /\ trace[q].idx > 1)
            => \E p \in 1..(q - 1) :
                   trace[p].kind = "result" /\ trace[p].idx = trace[q].idx - 1

\* C3 (amended): the batch runs in two passes.  Every repository is
\* analyzed, in list order, before the first deployment call is issued; the
\* deployment calls are issued in list order, and the call for repository
\* N+1 comes after the DeploymentResult of repository N.
C3_TwoPassSequential ==
    /\ \A q \in Calls("refs") :
         /\ \A n \in DOMAIN repos :
              \E p \in 1..(q - 1) : trace[p].kind = "view" /\ trace[p].idx = n
         /\ trace[q].idx > 1
              => \E p \in 1..(q - 1) :
                     trace[p].kind = "result" /\ trace[p].idx = trace[q].idx - 1
    /\ \A p, q \in AnalysisCalls : p < q => trace[p].idx <= trace[q].idx
    /\ \A p, q \in Calls("refs") : p < q => trace[p].idx < trace[q].idx

C3_Witness ==
    \E q \in Calls("refs") : trace[q].idx = 2

\* C4: an external-call failure during analysis is recovered locally, and
\* whatever stops the run stops it before any repository-specific call.
C4_NothingAbortsBatch ==
    BatchEntered => (raised # "none" => trace = <<>>)

\* C5: the package builder returns a package with a non-empty files mapping
\* for each identifier of the enumeration, and fails with ValueError and no
\* package for every other identifier.
C5_PackageForEveryType ==
    BatchEntered =>
        IF package_type \in PackageChoices
        THEN package # <<>> /\ DOMAIN package[1].files # {}
        ELSE package = <<>> /\ raised = "ValueError"

\* C6: the summary never raises, also when the total elapsed time is 0: once
\* the deployment loop has produced its results the batch returns and a
\* summary has been reported.
C6_ZeroDurationGuard ==
    (BatchEntered /\ package # <<>> /\ Len(results) = Len(repos) /\ Ended)
        => (raised = "none" /\ report # <<>>)

\* C7: a run without --scan exits with 0 exactly when every DeploymentResult
\* has success = TRUE and with 1 otherwise; a run with --scan issues no
\* analysis or deployment call and exits with 0.
C7_ExitCode ==
    (mode = "cli" /\ pc = "exited" /\ Truthy(token)) =>
        IF args.scan
        THEN exit_code = 0 /\ \A q \in DOMAIN trace : trace[q].kind = "scan"
        ELSE /\ exit_code \in {0, 1}
             /\ exit_code = 0 <=> AllSucceeded(results)

\* C8: without a token argument and without a non-empty GITHUB_TOKEN the
\* construction fails with ValueError and no external call is ever issued;
\* every external call is preceded by a successful credential check.
C8_CredentialFailFast ==
    /\ (~Truthy(github_token) /\ ~Truthy(env_token)) =>
         /\ trace = <<>>
         /\ pc \in {"parse_args", "construct", "exited", "raised"}
         /\ (pc \in {"exited", "raised"} /\ exit_code # 2) => raised = "ValueError"
    /\ trace # <<>> => (Truthy(token) /\ pc \notin {"parse_args", "construct"})

C8_Witness ==
    /\ ~Truthy(github_token) /\ ~Truthy(env_token)
    /\ raised = "ValueError"
    /\ pc \in {"exited", "raised"}

C10_AppendOnlyHistory ==
    /\ [](/\ deployment_history = history0 \o results
          /\ pc = "returned" => ResultsMatchInput)
    /\ [][/\ Len(deployment_history') >= Len(deployment_history)
          /\ SubSeq(deployment_history', 1, Len(deployment_history))
                 = deployment_history
          /\ pc = "deploy" =>
                 Len(deployment_history') = Len(deployment_history) + 1]_vars

C10_Witness ==
    /\ pc = "returned"
    /\ history0 # <<>>
    /\ results # <<>>
    /\ \E k \in DOMAIN deployment_history : ~deployment_history[k].success

====
